---- MODULE Spec2Model ----
(***************************************************************************)
(* Model of the repository dashboard component (src/src/App.js): the URL   *)
(* parser extractRepoInfo, the provider fetch and metric derivation of     *)
(* fetchGitHubRepoData, and the add / list / delete handlers that talk to  *)
(* the 'repos' table of the store.                                         *)
(*                                                                         *)
(* Strings that the code takes apart (the URL, the activity label) are     *)
(* sequences of tokens; the string itself is the concatenation of the      *)
(* tokens (UrlString, LabelString).                                        *)
(***************************************************************************)
EXTENDS Integers, Sequences, FiniteSets, TLC

VARIABLES
    url,                \* useState(''): the text of the input box, a token sequence
    repos,              \* useState([]): the displayed list
    loading,            \* useState(false)
    error,              \* useState('')
    detailedError,      \* useState('')
    showDetailedError,  \* useState(false)
    store,              \* rows of the table 'repos'
    nextId,             \* the table's SERIAL id sequence
    now,                \* the client clock, in ms (Date.now())
    pc,                 \* position of each running handler
    loc,                \* locals of each running handler
    hist,               \* history of the calls: requests issued, outcomes, counters
    fnArg,              \* <<argument>> of a function applied on its own, else <<>>
    fnRes               \* <<result>> once it has been applied

vars == <<url, repos, loading, error, detailedError, showDetailedError,
          store, nextId, now, pc, loc, hist, fnArg, fnRes>>

(***************************************************************************)
(* URL parsing: new URL(url), hostname, pathname (App.js 45-65)            *)
(***************************************************************************)
SchemeTokens == {"https://", "http://"}

HostTokens == {"github.com", "GitHub.com", "example.com", "www.github.com"}

NameTokens == {"a", "b"}

\* the characters that end the host, and those that end the path
HostDelims == {"/", "?", "#"}

PathDelims == {"?", "#"}

RECURSIVE ConcatStr(_)
\* the string spelled by a token sequence
ConcatStr(toks) ==
    IF toks = <<>> THEN "" ELSE Head(toks) \o ConcatStr(Tail(toks))

UrlString(u) == ConcatStr(u)

\* ASCII lower-casing of a host token (the URL parser lower-cases the host)
Lower(t) == IF t = "GitHub.com" THEN "github.com" ELSE t

RECURSIVE LowerStr(_)
LowerStr(toks) ==
    IF toks = <<>> THEN "" ELSE Lower(Head(toks)) \o LowerStr(Tail(toks))

RECURSIVE SkipSlashes(_)
\* a special scheme ignores every slash in front of the host
SkipSlashes(toks) ==
    IF toks # <<>> /\ Head(toks) = "/" THEN SkipSlashes(Tail(toks)) ELSE toks

RECURSIVE TakeUntil(_, _)
\* the longest prefix without a token of delims
TakeUntil(toks, delims) ==
    IF toks = <<>> \/ Head(toks) \in delims THEN <<>>
    ELSE <<Head(toks)>> \o TakeUntil(Tail(toks), delims)

DropN(toks, n) == SubSeq(toks, n + 1, Len(toks))

\* new URL(url): throws (valid = FALSE) without a scheme or without a host
ParseURL(u) ==
    IF u = <<>> \/ Head(u) \notin SchemeTokens
    THEN [valid |-> FALSE, hostname |-> "", pathname |-> <<>>]
    ELSE LET rest == SkipSlashes(Tail(u))
             host == TakeUntil(rest, HostDelims)
             path == TakeUntil(DropN(rest, Len(host)), PathDelims)
         IN  IF host = <<>>
             THEN [valid |-> FALSE, hostname |-> "", pathname |-> <<>>]
             ELSE [valid |-> TRUE, hostname |-> LowerStr(host),
                   pathname |-> IF path = <<>> THEN <<"/">> ELSE path]

RECURSIVE SplitOn(_, _)
\* String.prototype.split(sep): the pieces between the separators
SplitOn(toks, sep) ==
    LET first == TakeUntil(toks, {sep})
    IN  IF Len(first) = Len(toks) THEN <<first>>
        ELSE <<first>> \o SplitOn(DropN(toks, Len(first) + 1), sep)

RECURSIVE FilterBoolean(_)
\* Array.prototype.filter(Boolean) on strings: drops the empty ones
FilterBoolean(parts) ==
    IF parts = <<>> THEN <<>>
    ELSE IF Head(parts) = <<>> THEN FilterBoolean(Tail(parts))
         ELSE <<Head(parts)>> \o FilterBoolean(Tail(parts))

\* variant: the split pieces are used without filter(Boolean)
PathPartsUnfiltered(pathname) == SplitOn(pathname, "/")

PathParts(pathname) == FilterBoolean(SplitOn(pathname, "/"))

Thrown(msg) == [ok |-> FALSE, message |-> msg, owner |-> "", name |-> "", fullName |-> ""]

\* the body of the try block of extractRepoInfo (lines 47-61)
extractRepoInfoTry(u) ==
    LET urlObj == ParseURL(u)
        pathParts == PathParts(urlObj.pathname)
    IN  IF ~urlObj.valid THEN Thrown("Invalid URL")
        ELSE IF urlObj.hostname # "github.com" THEN Thrown("Not a valid GitHub URL")
        ELSE IF Len(pathParts) < 2 THEN Thrown("Not a valid repository URL")
        ELSE [ok |-> TRUE, message |-> "",
              owner |-> ConcatStr(pathParts[1]),
              name |-> ConcatStr(pathParts[2]),
              fullName |-> ConcatStr(pathParts[1]) \o "/" \o ConcatStr(pathParts[2])]

\* extractRepoInfo: whatever the try block throws is caught and replaced (62-64)
extractRepoInfo(u) ==
    LET r == extractRepoInfoTry(u)
    IN  IF r.ok THEN r ELSE Thrown("Invalid GitHub URL format")

(***************************************************************************)
(* Double-precision arithmetic of the metric formulas (App.js 88, 90).     *)
(* A finite double is held as a fixed-point number: limb 1 is the integer  *)
(* part, limbs 2..NumLimbs are the fraction in base 2^15, most significant *)
(* first.  Every operation rounds its exact result to 53 significant bits, *)
(* ties to even, as IEEE-754 does.                                         *)
(***************************************************************************)
Base == 2^15

NumLimbs == 7

Limbs == 1..NumLimbs

RECURSIVE BitLen(_)
BitLen(x) == IF x = 0 THEN 0 ELSE 1 + BitLen(x \div 2)

RECURSIVE Carry(_, _)
\* propagate an overflowing limb towards the integer part
Carry(l, k) ==
    IF k > 1 /\ l[k] >= Base
    THEN Carry([l EXCEPT ![k] = @ - Base, ![k - 1] = @ + 1], k - 1)
    ELSE l

FirstNonZero(l) ==
    IF \A k \in Limbs : l[k] = 0 THEN 0
    ELSE CHOOSE k \in Limbs : l[k] # 0 /\ \A m \in 1..(k - 1) : l[m] = 0

\* round a positive fixed-point number to 53 significant bits, ties to even;
\* sticky says that non-zero bits lie beyond the last limb
Round53(l, sticky) ==
    LET j == FirstNonZero(l)
        keep == 53 - BitLen(l[j])
        c == j + (keep \div 15) + 1
        t == 15 - (keep % 15)
        v == l[c]
        kept == (v \div 2^t) * 2^t
        roundBit == (v \div 2^(t - 1)) % 2
        rest == v % 2^(t - 1) # 0 \/ sticky \/ \E k \in Limbs : k > c /\ l[k] # 0
        lsb == IF t < 15 THEN (v \div 2^t) % 2 ELSE l[c - 1] % 2
        cut == [k \in Limbs |-> IF k < c THEN l[k] ELSE IF k = c THEN kept ELSE 0]
    IN  IF j = 0 \/ c > NumLimbs THEN l
        ELSE IF roundBit = 1 /\ (rest \/ lsb = 1)
             THEN Carry([cut EXCEPT ![c] = @ + 2^t], c)
             ELSE cut

RECURSIVE DivDigits(_, _, _)
\* the next k base-2^15 digits of r / n, for r < n
DivDigits(r, n, k) ==
    IF k = 0 THEN <<>>
    ELSE <<(r * Base) \div n>> \o DivDigits((r * Base) % n, n, k - 1)

RECURSIVE DivRem(_, _, _)
DivRem(r, n, k) == IF k = 0 THEN r ELSE DivRem((r * Base) % n, n, k - 1)

\* a / n for integers a >= 0, n > 0
FDiv(a, n) ==
    [neg |-> FALSE,
     l |-> Round53(<<a \div n>> \o DivDigits(a % n, n, NumLimbs - 1),
                   DivRem(a % n, n, NumLimbs - 1) # 0)]

\* 1 - x for x >= 0
FOneMinus(x) ==
    LET l == x.l
        comp == [k \in Limbs |-> IF k = 1 THEN 0 ELSE Base - 1 - l[k]]
    IN  IF l[1] >= 1
        THEN LET d == [l EXCEPT ![1] = @ - 1]
             IN  [neg |-> \E k \in Limbs : d[k] # 0, l |-> Round53(d, FALSE)]
        ELSE IF \A k \in Limbs : l[k] = 0
             THEN [neg |-> FALSE, l |-> [k \in Limbs |-> IF k = 1 THEN 1 ELSE 0]]
             ELSE [neg |-> FALSE,
                   l |-> Round53(Carry([comp EXCEPT ![NumLimbs] = @ + 1], NumLimbs), FALSE)]

RECURSIVE MulFrom(_, _, _, _)
\* multiply limbs k..1 by the small integer c, carrying upwards
MulFrom(l, c, k, carry) ==
    LET v == l[k] * c + carry
    IN  IF k = 1 THEN [l EXCEPT ![1] = v]
        ELSE MulFrom([l EXCEPT ![k] = v % Base], c, k - 1, v \div Base)

\* x * c for a small integer c > 0
FMul(x, c) == [neg |-> x.neg, l |-> Round53(MulFrom(x.l, c, NumLimbs, 0), FALSE)]

\* Math.round: the nearest integer, a tie going towards +Infinity
MathRound(x) ==
    LET half == Base \div 2
        atLeastHalf == x.l[2] >= half
        aboveHalf == x.l[2] > half
                     \/ (x.l[2] = half /\ \E k \in Limbs : k > 2 /\ x.l[k] # 0)
    IN  IF x.neg THEN 0 - (x.l[1] + (IF aboveHalf THEN 1 ELSE 0))
        ELSE x.l[1] + (IF atLeastHalf THEN 1 ELSE 0)

\* Math.round((1 - (issues / (stars + 1))) * 100)   (line 88)
HealthScore(stars, issues) == MathRound(FMul(FOneMinus(FDiv(issues, stars + 1)), 100))

\* Math.round((stars / (forks + 1)) * 10)   (line 90)
TrendingFactor(stars, forks) == MathRound(FMul(FDiv(stars, forks + 1), 10))

(***************************************************************************)
(* Mapping of the provider's response to the stored row (App.js 80-92)     *)
(***************************************************************************)
\* An optional field of the response is <<v>> when present and Absent when
\* the provider left it out (null / undefined).
Absent == <<>>

DayMs == 1000 * 60 * 60 * 24

\* Math.round(diff / DayMs).  One correctly rounded division of an integer
\* by DayMs cannot cross a half-way point, so the quotient and remainder give
\* the double result exactly.
RoundDays(diff) ==
    (diff \div DayMs) + (IF 2 * (diff % DayMs) >= DayMs THEN 1 ELSE 0)

DigitChars == <<"0", "1", "2", "3", "4", "5", "6", "7", "8", "9">>

RECURSIVE DigitsOf(_)
DigitsOf(n) ==
    IF n < 10 THEN <<DigitChars[n + 1]>>
    ELSE DigitsOf(n \div 10) \o <<DigitChars[(n % 10) + 1]>>

\* the decimal text of an integer, one token per character
NumberToString(n) == IF n < 0 THEN <<"-">> \o DigitsOf(0 - n) ELSE DigitsOf(n)

LabelString(label) == ConcatStr(label)

\* variant: a missing pushed_at is taken to be the current time
ActivityLevelDefaultNow(pushed_at, clock) ==
    NumberToString(RoundDays(clock - (IF pushed_at = Absent THEN clock ELSE pushed_at[1])))
        \o <<" ", "days">>

\* data.pushed_at ? `${Math.round((Date.now() - new Date(data.pushed_at)) / DayMs)} days`
\*                : 'Unknown'   (line 89)
ActivityLevel(pushed_at, clock) ==
    IF pushed_at = Absent THEN <<"Unknown">>
    ELSE NumberToString(RoundDays(clock - pushed_at[1])) \o <<" ", "days">>

\* data.language || 'Unknown'   (line 87)
MainLanguage(language) ==
    IF language = Absent \/ language = <<"">> THEN "Unknown" ELSE language[1]

\* the object returned by fetchGitHubRepoData (lines 80-92); clock is what
\* Date.now() reads at line 89, stamp what new Date() reads at line 91
RepoData(data, clock, stamp) ==
    [name |-> data.name,
     owner |-> data.login,
     fullname |-> data.full_name,
     stars |-> data.stargazers_count,
     forks |-> data.forks_count,
     issues |-> data.open_issues_count,
     mainlanguage |-> MainLanguage(data.language),
     healthscore |-> HealthScore(data.stargazers_count, data.open_issues_count),
     activitylevel |-> ActivityLevel(data.pushed_at, clock),
     trendingfactor |-> TrendingFactor(data.stargazers_count, data.forks_count),
     createdat |-> stamp]

\* variant: the message is passed on without the fallback text
DetailOfNoFallback(message) == message

\* err.message || 'No additional error details available'   (lines 36, 131, 219)
DetailOf(message) ==
    IF message = "" THEN "No additional error details available" ELSE message

\* the message thrown by fetchGitHubRepoData for a failed request or a body
\* that could not be read (lines 75-77, 93-95)
FetchFailure(resp) ==
    "Failed to fetch repository data: "
        \o (IF resp.kind = "status" THEN "GitHub API error: " \o ToString(resp.status)
            ELSE resp.message)

(***************************************************************************)
(* The component and its collaborators                                     *)
(***************************************************************************)
\* handleSubmit calls and delete clicks of a run
MaxAdds == 2

MaxDeletes == 2

\* the handler started by the k-th confirmed click on a delete button
DeleteCall(k) == "delete" \o ToString(k)

\* the running handlers: the mount effect, handleSubmit, the delete handlers
DeleteCalls == {DeleteCall(k) : k \in 1..MaxDeletes}

Calls == {"mount", "submit"} \cup DeleteCalls

\* positions at which no call is running
Resting == {"start", "idle", "done"}

\* clock of the first render, and the time between two readings
Epoch == 10 * DayMs

TickMs == DayMs \div 2

\* what Date.now() reads at line 89 when the reading of the call before was t:
\* a later time, two calls being at least a request to the provider apart
Clock(t) == { t + TickMs }

\* what new Date() reads at line 91 when Date.now() read t at line 89: the
\* same millisecond or the next one
Stamp(t) == { t, t + 1 }

\* the texts the user types in this model
UrlChoices ==
    { <<"https://", "github.com", "/", "a", "/", "b">>,
      <<"https://", "github.com", "/", "a">> }

\* the metric fields of the provider's answers in this model
MetricSamples ==
    { [stargazers_count |-> 39, forks_count |-> 9, open_issues_count |-> 17,
       language |-> Absent, pushed_at |-> <<Epoch - 3 * DayMs>>] }

\* the JSON body of GET /repos/{fullName}
Body(info, m) ==
    [name |-> info.name, login |-> info.owner, full_name |-> info.fullName,
     stargazers_count |-> m.stargazers_count, forks_count |-> m.forks_count,
     open_issues_count |-> m.open_issues_count,
     language |-> m.language, pushed_at |-> m.pushed_at]

\* how await fetch(...) can end: a response with a success status, one with a
\* non-success status, a rejection
ProviderResponses ==
    { [kind |-> "ok", status |-> 200, message |-> ""],
      [kind |-> "status", status |-> 404, message |-> ""],
      [kind |-> "unreachable", status |-> 0, message |-> "Failed to fetch"] }

\* how await response.json() can end: the parsed body, a rejection
BodyReplies(info) ==
    { [kind |-> "ok", status |-> 200, message |-> "", data |-> Body(info, m)] :
          m \in MetricSamples }
    \cup { [kind |-> "malformed", status |-> 200,
            message |-> "Unexpected end of JSON input",
            data |-> Body(info, CHOOSE m \in MetricSamples : TRUE)] }

\* the error member of a store reply: Absent, or <<message>>
StoreErrors == { <<"">> }

StoreReplies == {Absent} \cup StoreErrors

\* the row the table keeps for an inserted object
Row(repoData, id) == [id |-> id] @@ repoData

\* variant: the rows are ordered oldest first
ListingsAscending(rows) ==
    { s \in [1..Cardinality(rows) -> rows] :
          /\ \A i, j \in DOMAIN s : i # j => s[i] # s[j]
          /\ \A i, j \in DOMAIN s : i < j => s[i].createdat <= s[j].createdat }

\* select('*').order('createdat', {ascending: false}): every row once, newest
\* first; rows of equal createdat come in either order
Listings(rows) ==
    { s \in [1..Cardinality(rows) -> rows] :
          /\ \A i, j \in DOMAIN s : i # j => s[i] # s[j]
          /\ \A i, j \in DOMAIN s : i < j => s[i].createdat >= s[j].createdat }

NoInfo == Thrown("")

NoBody == Body(NoInfo, CHOOSE m \in MetricSamples : TRUE)

NoData == RepoData(NoBody, 0, 0)

NoReply == [error |-> Absent, data |-> <<>>]

NoLocals == [repoInfo |-> NoInfo, repoData |-> NoData, id |-> 0, reply |-> NoReply]

\* History of the calls.  requests, failed and wrote describe the running call
\* of each handler: the requests it has issued, the first stage at which the
\* parser or a collaborator reported a failure, the rows it has added to or
\* removed from the table.  last is the same for the call that ended in the
\* step that led to the state, NoLast after any other step.  storeFailed says
\* that the table has answered some request of the run with an error.
NoLast == [call |-> "none", failed |-> "none", requests |-> <<>>, wrote |-> 0]

NoHistory ==
    [adds |-> 0, deletes |-> 0, inserted |-> 0, addOk |-> 0, storeFailed |-> FALSE,
     requests |-> [c \in Calls |-> <<>>],
     failed |-> [c \in Calls |-> "none"],
     wrote |-> [c \in Calls |-> 0],
     last |-> NoLast]

\* everything but the input box, the table, the clock and fnArg, fnRes
InitComponent ==
    /\ repos = <<>>
    /\ loading = FALSE
    /\ error = ""
    /\ detailedError = ""
    /\ showDetailedError = FALSE
    /\ pc = [c \in Calls |-> IF c = "mount" THEN "start" ELSE "idle"]
    /\ loc = [c \in Calls |-> NoLocals]
    /\ hist = NoHistory

Init ==
    /\ InitComponent
    /\ url = <<>>
    /\ store = {}
    /\ nextId = 1
    /\ now = Epoch
    /\ fnArg = <<>>
    /\ fnRes = <<>>

\* the history after a step in which no call ended
Going(h) == [h EXCEPT !.last = NoLast]

\* the history after call c issued request r
Requested(h, c, r) == [h EXCEPT !.requests[c] = Append(@, r), !.last = NoLast]

\* the history after a failure was reported to call c at the given stage
Faulted(h, c, stage) ==
    [h EXCEPT !.failed[c] = stage,
              !.storeFailed = @ \/ stage \in {"insert", "select", "delete"},
              !.last = NoLast]

\* the history after call c ended
Ended(h, c) ==
    [h EXCEPT !.last = [call |-> c, failed |-> h.failed[c],
                        requests |-> h.requests[c], wrote |-> h.wrote[c]],
              !.requests[c] = <<>>,
              !.failed[c] = "none",
              !.wrote[c] = 0,
              !.addOk = IF c = "submit" /\ h.failed[c] \in {"none", "select"}
                        THEN @ + 1 ELSE @]

\* useEffect(() => { fetchRepos(); }, [])   (lines 17-19)
Mount ==
    /\ pc["mount"] = "start"
    /\ pc' = [pc EXCEPT !["mount"] = "select"]
    /\ hist' = Requested(hist, "mount", "select")
    /\ UNCHANGED <<url, repos, loading, error, detailedError, showDetailedError,
                   store, nextId, now, loc, fnArg, fnRes>>

\* onChange={(e) => setUrl(e.target.value)}   (line 156)
SetUrl ==
    /\ \E u \in UrlChoices : u # url /\ url' = u
    /\ hist' = Going(hist)
    /\ UNCHANGED <<repos, loading, error, detailedError, showDetailedError,
                   store, nextId, now, pc, loc, fnArg, fnRes>>

\* toggleDetailedError; its button is rendered with an error and a detail (139-141, 168-180)
toggleDetailedError ==
    /\ error # "" /\ detailedError # ""
    /\ showDetailedError' = ~showDetailedError
    /\ hist' = Going(hist)
    /\ UNCHANGED <<url, repos, loading, error, detailedError,
                   store, nextId, now, pc, loc, fnArg, fnRes>>

\* variant: the catch block returns without setLoading(false)
SubmitFailedStillLoading(message, h) ==
    /\ error' = "Failed to add repository"
    /\ detailedError' = DetailOf(message)
    /\ loading' = TRUE
    /\ pc' = [pc EXCEPT !["submit"] = "idle"]
    /\ loc' = [loc EXCEPT !["submit"] = NoLocals]
    /\ hist' = Ended(h, "submit")

\* the catch block of handleSubmit followed by setLoading(false)   (129-133)
SubmitFailed(message, h) ==
    /\ error' = "Failed to add repository"
    /\ detailedError' = DetailOf(message)
    /\ loading' = FALSE
    /\ pc' = [pc EXCEPT !["submit"] = "idle"]
    /\ loc' = [loc EXCEPT !["submit"] = NoLocals]
    /\ hist' = Ended(h, "submit")

\* handleSubmit up to its first await (106-118, 74); the submit button is
\* disabled while loading (162)
handleSubmit ==
    /\ ~loading
    /\ hist.adds < MaxAdds
    /\ LET repoInfo == extractRepoInfo(url)
           h == [hist EXCEPT !.adds = @ + 1,
                             !.requests["submit"] = <<"parse">>,
                             !.failed["submit"] = IF repoInfo.ok THEN "none" ELSE "parse",
                             !.wrote["submit"] = 0]
       IN  IF ~repoInfo.ok
           THEN /\ SubmitFailed(repoInfo.message, h)
                /\ showDetailedError' = FALSE
                /\ UNCHANGED <<url, repos, store, nextId, now, fnArg, fnRes>>
           ELSE /\ loading' = TRUE
                /\ error' = ""
                /\ detailedError' = ""
                /\ showDetailedError' = FALSE
                /\ pc' = [pc EXCEPT !["submit"] = "fetch"]
                /\ loc' = [loc EXCEPT !["submit"] = [NoLocals EXCEPT !.repoInfo = repoInfo]]
                /\ hist' = Requested(h, "submit", "fetch")
                /\ UNCHANGED <<url, repos, store, nextId, now, fnArg, fnRes>>

\* variant: response.ok is not looked at, the body of a non-success answer is
\* awaited like any other
handleSubmitFetchedUnchecked ==
    /\ pc["submit"] = "fetch"
    /\ \E resp \in ProviderResponses :
          LET h == IF resp.kind = "ok" THEN Going(hist) ELSE Faulted(hist, "submit", "fetch")
          IN  IF resp.kind = "unreachable"
              THEN /\ SubmitFailed(FetchFailure(resp), h)
                   /\ UNCHANGED <<url, repos, showDetailedError, store, nextId, now,
                                  fnArg, fnRes>>
              ELSE /\ pc' = [pc EXCEPT !["submit"] = "json"]
                   /\ hist' = h
                   /\ UNCHANGED <<url, repos, loading, error, detailedError,
                                  showDetailedError, store, nextId, now, loc,
                                  fnArg, fnRes>>

\* await fetch(...) resumes: the request was rejected, or answered with a
\* non-success status, or response.json() is called and awaited (74-78, 93-95)
handleSubmitFetched ==
    /\ pc["submit"] = "fetch"
    /\ \E resp \in ProviderResponses :
          LET h == IF resp.kind = "ok" THEN Going(hist) ELSE Faulted(hist, "submit", "fetch")
          IN  IF resp.kind # "ok"
              THEN /\ SubmitFailed(FetchFailure(resp), h)
                   /\ UNCHANGED <<url, repos, showDetailedError, store, nextId, now,
                                  fnArg, fnRes>>
              ELSE /\ pc' = [pc EXCEPT !["submit"] = "json"]
                   /\ hist' = h
                   /\ UNCHANGED <<url, repos, loading, error, detailedError,
                                  showDetailedError, store, nextId, now, loc,
                                  fnArg, fnRes>>

\* await response.json() resumes: it was rejected, or fetchGitHubRepoData maps
\* the body, reading the clock at lines 89 and 91, and handleSubmit issues the
\* insert (78-95, 118-123)
handleSubmitBody ==
    /\ pc["submit"] = "json"
    /\ \E body \in BodyReplies(loc["submit"].repoInfo) :
          IF body.kind # "ok"
          THEN /\ SubmitFailed(FetchFailure(body), Faulted(hist, "submit", "fetch"))
               /\ UNCHANGED <<url, repos, showDetailedError, store, nextId, now,
                              fnArg, fnRes>>
          ELSE /\ \E clock \in Clock(now) :
                     /\ now' \in Stamp(clock)
                     /\ loc' = [loc EXCEPT !["submit"].repoData
                                              = RepoData(body.data, clock, now')]
               /\ pc' = [pc EXCEPT !["submit"] = "insert"]
               /\ hist' = Requested(hist, "submit", "insert")
               /\ UNCHANGED <<url, repos, loading, error, detailedError,
                              showDetailedError, store, nextId, fnArg, fnRes>>

\* variant: a row is written only when no row has the same fullname (an upsert)
StoreInsertOnce ==
    /\ pc["submit"] = "insert"
    /\ \E e \in StoreReplies :
          /\ loc' = [loc EXCEPT !["submit"].reply = [error |-> e, data |-> <<>>]]
          /\ IF e = Absent
             THEN IF \E r \in store : r.fullname = loc["submit"].repoData.fullname
                  THEN hist' = Going(hist) /\ UNCHANGED <<store, nextId>>
                  ELSE /\ store' = store \cup {Row(loc["submit"].repoData, nextId)}
                       /\ nextId' = nextId + 1
                       /\ hist' = [hist EXCEPT !.inserted = @ + 1,
                                               !.wrote["submit"] = @ + 1,
                                               !.last = NoLast]
             ELSE /\ hist' = Faulted(hist, "submit", "insert")
                  /\ UNCHANGED <<store, nextId>>
    /\ pc' = [pc EXCEPT !["submit"] = "inserted"]
    /\ UNCHANGED <<url, repos, loading, error, detailedError, showDetailedError,
                   now, fnArg, fnRes>>

\* the table executes insert([repoData])   (121-123)
StoreInsert ==
    /\ pc["submit"] = "insert"
    /\ \E e \in StoreReplies :
          /\ loc' = [loc EXCEPT !["submit"].reply = [error |-> e, data |-> <<>>]]
          /\ IF e = Absent
             THEN /\ store' = store \cup {Row(loc["submit"].repoData, nextId)}
                  /\ nextId' = nextId + 1
                  /\ hist' = [hist EXCEPT !.inserted = @ + 1,
                                          !.wrote["submit"] = @ + 1,
                                          !.last = NoLast]
             ELSE /\ hist' = Faulted(hist, "submit", "insert")
                  /\ UNCHANGED <<store, nextId>>
    /\ pc' = [pc EXCEPT !["submit"] = "inserted"]
    /\ UNCHANGED <<url, repos, loading, error, detailedError, showDetailedError,
                   now, fnArg, fnRes>>

\* handleSubmit resumes after the insert (125-128, 23-26)
handleSubmitInserted ==
    /\ pc["submit"] = "inserted"
    /\ LET e == loc["submit"].reply.error
       IN  IF e # Absent
           THEN /\ SubmitFailed(e[1], hist)
                /\ UNCHANGED <<url, repos, showDetailedError, store, nextId, now,
                               fnArg, fnRes>>
           ELSE /\ url' = <<>>
                /\ pc' = [pc EXCEPT !["submit"] = "select"]
                /\ hist' = Requested(hist, "submit", "select")
                /\ UNCHANGED <<repos, loading, error, detailedError, showDetailedError,
                               store, nextId, now, loc, fnArg, fnRes>>

\* the table executes select('*').order('createdat', {ascending: false})   (23-26)
StoreSelect(c) ==
    /\ pc[c] = "select"
    /\ \E e \in StoreReplies :
          /\ \E data \in (IF e = Absent THEN Listings(store) ELSE {<<>>}) :
                loc' = [loc EXCEPT ![c].reply = [error |-> e, data |-> data]]
          /\ hist' = IF e = Absent THEN Going(hist) ELSE Faulted(hist, c, "select")
    /\ pc' = [pc EXCEPT ![c] = "selected"]
    /\ UNCHANGED <<url, repos, loading, error, detailedError, showDetailedError,
                   store, nextId, now, fnArg, fnRes>>

\* fetchRepos resumes after the select and returns to its caller: the mount
\* effect, handleSubmit (which then runs setLoading(false)) or a delete handler
\* (28-37, 128-133, 216)
fetchReposReturn(c) ==
    /\ pc[c] = "selected"
    /\ LET e == loc[c].reply.error
       IN  IF e # Absent
           THEN /\ error' = "Failed to fetch repos"
                /\ detailedError' = DetailOf(e[1])
                /\ UNCHANGED <<repos, showDetailedError>>
           ELSE /\ repos' = loc[c].reply.data
                /\ error' = ""
                /\ detailedError' = ""
                /\ showDetailedError' = FALSE
    /\ loading' = IF c = "submit" THEN FALSE ELSE loading
    /\ pc' = [pc EXCEPT ![c] = IF c = "mount" THEN "done" ELSE "idle"]
    /\ loc' = [loc EXCEPT ![c] = NoLocals]
    /\ hist' = Ended(hist, c)
    /\ UNCHANGED <<url, store, nextId, now, fnArg, fnRes>>

\* onClick of a card's delete button up to its await (206-212); the button is
\* never disabled, a click starts a handler whatever else is running
deleteOnClick(c) ==
    /\ hist.deletes < MaxDeletes
    /\ c = DeleteCall(hist.deletes + 1)
    /\ \E i \in DOMAIN repos, confirmed \in BOOLEAN :
          IF confirmed
          THEN /\ pc' = [pc EXCEPT ![c] = "delete"]
               /\ loc' = [loc EXCEPT ![c] = [NoLocals EXCEPT !.id = repos[i].id]]
               /\ hist' = [hist EXCEPT !.deletes = @ + 1,
                                       !.requests[c] = <<"delete">>,
                                       !.failed[c] = "none",
                                       !.wrote[c] = 0,
                                       !.last = NoLast]
          ELSE hist' = Going(hist) /\ UNCHANGED <<pc, loc>>
    /\ UNCHANGED <<url, repos, loading, error, detailedError, showDetailedError,
                   store, nextId, now, fnArg, fnRes>>

\* variant: the delete is issued without the filter on id
StoreDeleteUnfiltered(c) ==
    /\ pc[c] = "delete"
    /\ \E e \in StoreReplies :
          /\ loc' = [loc EXCEPT ![c].reply = [error |-> e, data |-> <<>>]]
          /\ IF e = Absent
             THEN /\ store' = {}
                  /\ hist' = [hist EXCEPT !.wrote[c] = @ + Cardinality(store),
                                          !.last = NoLast]
             ELSE /\ hist' = Faulted(hist, c, "delete")
                  /\ UNCHANGED store
    /\ pc' = [pc EXCEPT ![c] = "deleted"]
    /\ UNCHANGED <<url, repos, loading, error, detailedError, showDetailedError,
                   nextId, now, fnArg, fnRes>>

\* the table executes delete().eq('id', repo.id)   (209-212)
StoreDelete(c) ==
    /\ pc[c] = "delete"
    /\ \E e \in StoreReplies :
          /\ loc' = [loc EXCEPT ![c].reply = [error |-> e, data |-> <<>>]]
          /\ IF e = Absent
             THEN /\ store' = {r \in store : r.id # loc[c].id}
                  /\ hist' = [hist EXCEPT
                                 !.wrote[c] = @ + Cardinality({r \in store : r.id = loc[c].id}),
                                 !.last = NoLast]
             ELSE /\ hist' = Faulted(hist, c, "delete")
                  /\ UNCHANGED store
    /\ pc' = [pc EXCEPT ![c] = "deleted"]
    /\ UNCHANGED <<url, repos, loading, error, detailedError, showDetailedError,
                   nextId, now, fnArg, fnRes>>

\* the delete handler resumes after the delete (214-220, 23-26)
deleteReturned(c) ==
    /\ pc[c] = "deleted"
    /\ LET e == loc[c].reply.error
       IN  IF e # Absent
           THEN /\ error' = "Failed to delete repository"
                /\ detailedError' = DetailOf(e[1])
                /\ pc' = [pc EXCEPT ![c] = "idle"]
                /\ loc' = [loc EXCEPT ![c] = NoLocals]
                /\ hist' = Ended(hist, c)
           ELSE /\ pc' = [pc EXCEPT ![c] = "select"]
                /\ hist' = Requested(hist, c, "select")
                /\ UNCHANGED <<error, detailedError, loc>>
    /\ UNCHANGED <<url, repos, loading, showDetailedError, store, nextId, now,
                   fnArg, fnRes>>

Next ==
    \/ Mount
    \/ SetUrl
    \/ toggleDetailedError
    \/ handleSubmit
    \/ handleSubmitFetched
    \/ handleSubmitBody
    \/ StoreInsert
    \/ handleSubmitInserted
    \/ \E c \in Calls : StoreSelect(c)
    \/ \E c \in Calls : fetchReposReturn(c)
    \/ \E c \in DeleteCalls : deleteOnClick(c)
    \/ \E c \in DeleteCalls : StoreDelete(c)
    \/ \E c \in DeleteCalls : deleteReturned(c)

Spec == Init /\ [][Next]_vars

TypeOK ==
    /\ loading \in BOOLEAN
    /\ showDetailedError \in BOOLEAN
    /\ \A c \in Calls : pc[c] \in Resting \cup {"fetch", "json", "insert", "inserted", "select",
                                                "selected", "delete", "deleted"}

(***************************************************************************)
(* extractRepoInfo applied on its own to the URLs built from their parts   *)
(***************************************************************************)
MaxSegs == 3

\* path segments: a name is one or two name tokens
Names == { <<"a">>, <<"b">>, <<"a", "b">> }

RECURSIVE SeqsUpTo(_, _)
\* the sequences over S of length at most n
SeqsUpTo(S, n) ==
    IF n = 0 THEN {<<>>}
    ELSE SeqsUpTo(S, n - 1)
         \cup {Append(q, x) : q \in {r \in SeqsUpTo(S, n - 1) : Len(r) = n - 1}, x \in S}

\* what follows the path: nothing, a query, a fragment
Suffixes == { <<>>, <<"?", "a">>, <<"?", "a", "/", "b">>, <<"#", "b", "/", "a">> }

UrlParts ==
    [scheme : {<<>>} \cup {<<t>> : t \in SchemeTokens},
     host : {<<t>> : t \in HostTokens},
     segs : SeqsUpTo(Names, MaxSegs),
     double : BOOLEAN,
     trailing : BOOLEAN,
     suffix : Suffixes]

RECURSIVE RenderPath(_, _)
RenderPath(segs, double) ==
    IF segs = <<>> THEN <<>>
    ELSE (IF double THEN <<"/", "/">> ELSE <<"/">>) \o Head(segs)
         \o RenderPath(Tail(segs), double)

\* the text typed for the given parts
Render(p) ==
    p.scheme \o p.host \o RenderPath(p.segs, p.double)
        \o (IF p.trailing THEN <<"/">> ELSE <<>>) \o p.suffix

InitParse ==
    /\ InitComponent
    /\ fnArg \in {<<p>> : p \in UrlParts}
    /\ url = Render(fnArg[1])
    /\ store = {}
    /\ nextId = 1
    /\ now = Epoch
    /\ fnRes = <<>>

\* const repoInfo = extractRepoInfo(url)   (line 115)
ParseStep ==
    /\ fnArg # <<>>
    /\ fnRes = <<>>
    /\ fnRes' = <<extractRepoInfo(url)>>
    /\ UNCHANGED <<url, repos, loading, error, detailedError, showDetailedError,
                   store, nextId, now, pc, loc, hist, fnArg>>

NextParse == ParseStep

SpecParse == InitParse /\ [][NextParse]_vars

(***************************************************************************)
(* The mapping of a provider answer applied on its own                     *)
(***************************************************************************)
MaxStars == 100

MaxForks == 9

MaxIssues == 20

MaxAgeDays == 12

\* time since the last push: whole days, and just below, at and above the half
Ages ==
    { d * DayMs + o : d \in (0 - 1)..MaxAgeDays,
                      o \in {0, (DayMs \div 2) - 1, DayMs \div 2, (DayMs \div 2) + 1} }

DeriveInfo == [owner |-> "a", name |-> "b", fullName |-> "a/b"]

\* answers with every combination of counts, and answers with every age
DeriveBodies ==
    { Body(DeriveInfo, [stargazers_count |-> s, forks_count |-> f, open_issues_count |-> i,
                        language |-> Absent, pushed_at |-> Absent]) :
          s \in 0..MaxStars, f \in 0..MaxForks, i \in 0..MaxIssues }
    \cup { Body(DeriveInfo, [stargazers_count |-> 100, forks_count |-> 9,
                             open_issues_count |-> 10,
                             language |-> l, pushed_at |-> <<Epoch - a>>]) :
               l \in {Absent, <<"">>, <<"Go">>}, a \in Ages }

InitDerive ==
    /\ InitComponent
    /\ fnArg \in {<<b, t>> : b \in DeriveBodies, t \in Stamp(Epoch)}
    /\ url = <<>>
    /\ store = {}
    /\ nextId = 1
    /\ now = Epoch
    /\ fnRes = <<>>

\* the return statement of fetchGitHubRepoData   (lines 80-92): Date.now()
\* reads now, new Date() reads fnArg[2]
DeriveStep ==
    /\ fnArg # <<>>
    /\ fnRes = <<>>
    /\ fnRes' = <<RepoData(fnArg[1], now, fnArg[2])>>
    /\ UNCHANGED <<url, repos, loading, error, detailedError, showDetailedError,
                   store, nextId, now, pc, loc, hist, fnArg>>

NextDerive == DeriveStep

SpecDerive == InitDerive /\ [][NextDerive]_vars

(***************************************************************************)
(* Properties                                                              *)
(***************************************************************************)
\* C1: a handleSubmit call that failed at parsing issued no provider request
\* and no insert, one that failed at the provider issued no insert, and
\* neither added a row to the table.
FailFastNoPersist ==
    LET l == hist.last
    IN  /\ l.call = "submit" /\ l.failed = "parse" => l.requests = <<"parse">> /\ l.wrote = 0
        /\ l.call = "submit" /\ l.failed = "fetch"
              => l.requests = <<"parse", "fetch">> /\ l.wrote = 0

\* a provider failure ended a handleSubmit call while the table holds a row
FetchFailedWitness ==
    /\ hist.last.call = "submit"
    /\ hist.last.failed = "fetch"
    /\ Cardinality(store) = 1
    /\ error = "Failed to add repository"

\* C2: the rows inserted are as many as the handleSubmit calls whose parse,
\* fetch and insert all succeeded (the running call counted once its insert
\* is done), and no two rows share an id, so equal URLs give separate rows.
OneRecordPerSuccessfulAdd ==
    /\ hist.inserted = hist.addOk + hist.wrote["submit"]
    /\ \A r, q \in store : r.id = q.id => r = q
    /\ Cardinality(store) <= hist.inserted

\* the same URL was added twice and both rows are in the table
SameUrlTwiceWitness ==
    /\ hist.addOk = 2
    /\ \E r, q \in store : r.id # q.id /\ r.fullname = q.fullname

\* the failure named by the specification for the parts of a URL
ExpectedFailure(p) ==
    IF p.scheme = <<>> THEN "InvalidUrlFormat"
    ELSE IF LowerStr(p.host) # "github.com" THEN "UnsupportedHost"
    ELSE "IncompleteRepositoryPath"

\* the failure a caller can tell from the message of the thrown error
FailureOf(message) ==
    CASE message = "Not a valid GitHub URL" -> "UnsupportedHost"
      [] message = "Not a valid repository URL" -> "IncompleteRepositoryPath"
      [] OTHER -> "InvalidUrlFormat"

\* C3: a failed parse tells its caller which check failed: the URL syntax,
\* the host, or the number of path segments.
ParseFailureClassified ==
    fnRes # <<>> /\ ~fnRes[1].ok
        => FailureOf(fnRes[1].message) = ExpectedFailure(fnArg[1])

\* C4: a URL on host github.com with at least two non-empty path segments
\* parses to owner = first segment, name = second segment and
\* fullName = owner/name, whatever follows the second segment.
ParseOwnerAndName ==
    fnRes # <<>> /\ fnArg[1].scheme # <<>>
                 /\ fnArg[1].host \in {<<"github.com">>, <<"GitHub.com">>}
                 /\ Len(fnArg[1].segs) >= 2
        => /\ fnRes[1].ok
           /\ fnRes[1].owner = ConcatStr(fnArg[1].segs[1])
           /\ fnRes[1].name = ConcatStr(fnArg[1].segs[2])
           /\ fnRes[1].fullName
                 = ConcatStr(fnArg[1].segs[1]) \o "/" \o ConcatStr(fnArg[1].segs[2])

\* a URL with doubled slashes, a third segment and a query was parsed
ParseLongUrlWitness ==
    /\ fnRes # <<>>
    /\ fnRes[1].ok
    /\ fnRes[1].fullName = "ab/b"
    /\ Len(fnArg[1].segs) = 3
    /\ fnArg[1].double
    /\ fnArg[1].suffix = <<"?", "a", "/", "b">>

\* C5: healthscore is (1 - issues/(stars+1)) * 100 rounded to the nearest
\* integer, halves upwards, and is at most 100; trendingfactor is
\* (stars/(forks+1)) * 10 rounded the same way; 100 stars, 9 forks and
\* 10 issues give 90 and 100.
MetricsAsSpecified ==
    fnRes # <<>> =>
        LET s == fnArg[1].stargazers_count
            f == fnArg[1].forks_count
            i == fnArg[1].open_issues_count
            h == fnRes[1].healthscore
            t == fnRes[1].trendingfactor
        IN  /\ (2 * h - 1) * (s + 1) <= 200 * (s + 1 - i)
            /\ 200 * (s + 1 - i) < (2 * h + 1) * (s + 1)
            /\ h <= 100
            /\ (2 * t - 1) * (f + 1) <= 20 * s
            /\ 20 * s < (2 * t + 1) * (f + 1)
            /\ (s = 100 /\ f = 9 /\ i = 10 => h = 90 /\ t = 100)

RECURSIVE DigitsValue(_)
\* the number written by a sequence of digit characters
DigitsValue(ds) ==
    IF ds = <<>> THEN 0
    ELSE 10 * DigitsValue(SubSeq(ds, 1, Len(ds) - 1))
         + (CHOOSE d \in 0..9 : DigitChars[d + 1] = ds[Len(ds)])

IsDigits(ds) ==
    /\ ds # <<>>
    /\ \A k \in DOMAIN ds : \E d \in 0..9 : DigitChars[d + 1] = ds[k]
    /\ Len(ds) > 1 => ds[1] # "0"

\* an integer in decimal notation
IsIntegerText(ts) ==
    IsDigits(ts) \/ (ts # <<>> /\ ts[1] = "-" /\ IsDigits(Tail(ts)) /\ ts # <<"-", "0">>)

IntegerValue(ts) == IF ts[1] = "-" THEN 0 - DigitsValue(Tail(ts)) ELSE DigitsValue(ts)

\* C6: activitylevel is "Unknown" when pushed_at is absent; otherwise it splits
\* on the space into an integer N and "days", N being the number of days
\* between pushed_at and now rounded to the nearest integer.
ActivityLabelShape ==
    fnRes # <<>> =>
        LET pieces == SplitOn(fnRes[1].activitylevel, " ")
            pushed == fnArg[1].pushed_at
        IN  IF pushed = Absent
            THEN pieces = << <<"Unknown">> >>
            ELSE /\ Len(pieces) = 2
                 /\ pieces[2] = <<"days">>
                 /\ IsIntegerText(pieces[1])
                 /\ LET off == 2 * ((now - pushed[1]) - IntegerValue(pieces[1]) * DayMs)
                    IN  0 - DayMs <= off /\ off < DayMs

\* a push twelve days ago was labelled
TwelveDaysWitness ==
    /\ fnRes # <<>>
    /\ fnArg[1].pushed_at # Absent
    /\ fnRes[1].activitylevel = <<"1", "2", " ", "days">>

\* s lists every row of rows once, newest first
IsNewestFirst(s, rows) ==
    /\ Len(s) = Cardinality(rows)
    /\ {s[k] : k \in DOMAIN s} = rows
    /\ \A j, k \in DOMAIN s : j < k => s[j].createdat >= s[k].createdat

\* C7: the reply to a successful select lists every row of the table once,
\* newest first (the empty sequence for the empty table), and fetchRepos
\* displays exactly that reply and clears the error.
ListNewestFirst ==
    [][\A c \in Calls :
          /\ pc[c] = "select" /\ pc'[c] = "selected" /\ loc'[c].reply.error = Absent
                => IsNewestFirst(loc'[c].reply.data, store)
          /\ pc[c] = "selected" /\ pc'[c] \in Resting /\ loc[c].reply.error = Absent
                => repos' = loc[c].reply.data /\ error' = "" /\ detailedError' = ""]_vars

\* two rows of different age are displayed, the newer one first
ListedTwoWitness ==
    /\ Len(repos) = 2
    /\ repos[1].createdat > repos[2].createdat
    /\ {repos[1], repos[2]} = store
    /\ error = ""

\* C8: a call that ends after the parser, the provider or the store reported
\* a failure leaves error and detailedError non-empty, and the request that
\* failed is the last one the call issued.
FailureReported ==
    [][hist'.last.call # "none" /\ hist'.last.failed # "none"
          => /\ error' # ""
             /\ detailedError' # ""
             /\ hist'.last.requests # <<>>
             /\ hist'.last.requests[Len(hist'.last.requests)] = hist'.last.failed]_vars

\* a delete failed with an error that carries no message
DeleteFailedWitness ==
    /\ hist.last.call \in DeleteCalls
    /\ hist.last.failed = "delete"
    /\ error = "Failed to delete repository"
    /\ detailedError = "No additional error details available"

\* C9: no step changes the fields of a row that stays in the table; a delete
\* removes nothing but rows of the requested id and issues one delete request;
\* a delete that found no row is handled like any other successful delete:
\* no error is set and the list is refreshed.
RemoveOnlyThatId ==
    [][/\ \A r \in store, q \in store' : r.id = q.id => r = q
       /\ \A c \in DeleteCalls :
             /\ pc[c] = "delete" /\ pc'[c] = "deleted"
                   => /\ store' \subseteq store
                      /\ \A r \in store : r.id # loc[c].id => r \in store'
                      /\ (\A r \in store : r.id # loc[c].id) => store' = store
                      /\ hist.requests[c] = <<"delete">>
             /\ pc[c] = "deleted" /\ pc'[c] # "deleted" /\ loc[c].reply.error = Absent
                   => /\ pc'[c] = "select"
                      /\ error' = error
                      /\ detailedError' = detailedError]_vars

\* a delete for an id that is no longer in the table was executed while
\* another row is in the table
DeleteMissingWitness ==
    /\ \E c \in DeleteCalls : /\ pc[c] = "deleted"
                              /\ loc[c].reply.error = Absent
                              /\ hist.wrote[c] = 0
    /\ store # {}

\* C10: loading is true exactly while a handleSubmit call is running, so
\* every call that has ended, at whatever stage, left loading false.
LoadingWhileSubmitting == loading <=> pc["submit"] # "idle"

\* a handleSubmit call ended in the list refresh after its insert
SubmitEndedWitness ==
    /\ hist.last.call = "submit"
    /\ hist.last.failed = "select"
    /\ hist.last.wrote = 1
    /\ ~loading
    /\ pc["submit"] = "idle"

\* C11: with every request to the table answered without an error, whenever
\* no call is running (the mount effect has ended, no handleSubmit and no
\* delete is in flight) the displayed list holds exactly the rows of the
\* table, each of them once.
DisplayedIsStored ==
    (\A c \in Calls : pc[c] \in Resting) /\ pc["mount"] = "done" /\ ~hist.storeFailed
        => /\ {repos[k] : k \in DOMAIN repos} = store
           /\ Len(repos) = Cardinality(store)

====
